---- MODULE Spec2Model ----
(***************************************************************************)
(* Health tracker: the three retry wrappers around the generation API      *)
(* (fetchWithRetry in HealthTrackerApp.jsx, the fetchWithBackoff loop in   *)
(* part_000, the recursive fetchWithBackoff in index.jsx) and the tool     *)
(* handlers that validate their input before calling them.                 *)
(*                                                                         *)
(* One wrapper invocation is modelled at a time.  `calls` is the log of    *)
(* the outcomes of the fetch calls the invocation has issued and `sleeps`  *)
(* the log of the backoff delays it has taken.  Decoding the body of a     *)
(* successful response is left to the caller of the wrapper.               *)
(*                                                                         *)
(* The change-feed listeners (weights, nutrition_history, skin_journal)    *)
(* are modelled with the authentication flow that gates them: one App is   *)
(* mounted at a time, a listener effect runs again when one of its         *)
(* dependencies changes, and `estab` records what the guard saw when the   *)
(* listener was subscribed.  The weight save handlers write into `store`.  *)
(***************************************************************************)
EXTENDS Integers, Sequences, FiniteSets, TLC

\* ---------------------------------------------------------------- bounds
MaxBudget == 3
MaxEntries == 2
MaxDocs == 3
MaxTs == 3
MaxClock == 2
MaxSaves == 2
MaxRecords == 1

\* ------------------------------------------------------ program constants
BaseDelay == 1000
JitterRange == 1000
DefaultMaxRetries == 3
LoopAttempts == 3
DefaultRetries == 3

RECURSIVE Pow2(_)
Pow2(n) == IF n <= 0 THEN 1 ELSE 2 * Pow2(n - 1)

\* Math.random() * 1000 lies in [0, 1000): the two ends of the range
JitterVals == {0, JitterRange - 1}

Budgets == 0..MaxBudget

\* ------------------------------------------- outcomes of one fetch call
\* body of a failure response: JSON with error.message, JSON without it,
\* or not JSON at all (response.json() rejects)
ErrorBodies == {"msg", "nomsg", "bad"}
\* body of a success response: with or without candidates[0]...text
OkBodies == {"text", "notext"}
ErrorStatuses == {400, 403, 429, 500, 503}

Outcomes ==
    [kind : {"http"}, status : {200}, body : OkBodies]
    \cup [kind : {"http"}, status : ErrorStatuses, body : ErrorBodies]
    \cup {[kind |-> "transport", status |-> 0, body |-> "none"]}

\* response.ok
IsOkWithText(o) == o.kind = "http" /\ o.status = 200 /\ o.body = "text"
IsOk(o) == o.kind = "http" /\ o.status >= 200 /\ o.status <= 299

\* ------------------------------------------------------------- errors
Err(k, s, a) == [kind |-> k, status |-> s, attempt |-> a]
NoSave == [handler |-> "none", input |-> "", db |-> FALSE, userId |-> "null", called |-> FALSE,
           key |-> 0, session |-> "null",
           description |-> FALSE, image |-> FALSE, analysis |-> "null"]
NoSub == [db |-> FALSE, userId |-> "null", isAuthReady |-> FALSE, currentUser |-> "null"]

NoError == Err("none", 0, -1)

VARIABLES
    wrapper,     \* the wrapper being run: "none", "fetchWithRetry", "loop", "rec"
    pc,          \* "idle", "loop", "await", "sleep", "returned", "failed", "undefined"
    maxRetries,  \* fetchWithRetry: maxRetries; loop: 3; rec: the initial retries
    i,           \* fetchWithRetry: i; part_000: attempt
    retries,     \* index.jsx: retries of the current recursive call
    delay,       \* index.jsx: delay of the current recursive call
    lastError,   \* part_000: lastError
    calls,       \* outcomes of the fetch calls issued so far
    sleeps,      \* backoff delays taken so far, [base, jitter]
    raised,      \* the failure the wrapper raised
    tool,        \* the handler last invoked
    tpc,         \* "idle", "rejected", "converting", "generating", "done"
    image,       \* whether an image was attached when the handler ran
    entries,     \* weightData.length read by the handler (0 when it reads none)
    loading,     \* loading / isLoading
    message,     \* error (HealthTrackerApp.jsx), message (index.jsx)
    aiResponse,  \* result (HealthTrackerApp.jsx), aiResponse (part_000, index.jsx)
    activeTool,  \* activeTool (AiTools), currentTool (AITools); "none": no panel is mounted
    pending,     \* handler invocations that have set loading and not yet cleared it
    feed,        \* the listener that is subscribed: "none" or one of Feeds
    snap,        \* the documents of the snapshot delivered last, in store order
    data,        \* weightData (weights listeners), history (index.jsx)
    prev,        \* data before the delivery, when the snapshot was delivered again
    lastEvent,   \* "none", "snapshot", "redelivery", "error"
    feedError,   \* whether the listener's error is shown to the user
    estab,       \* db, userId, isAuthReady, currentUser when the listener was set up
    app,         \* the App that is mounted: "none" or one of Apps
    activeTab,   \* activeTab
    token,       \* whether initialAuthToken is present
    db,          \* db / dbInstance is set (auth / authInstance is set with it)
    userId,      \* userId: "null", a uid, "random" (crypto.randomUUID()), "anonymous-error"
    isAuthReady, \* isAuthReady
    currentUser, \* auth.currentUser: "null" or the uid of the live session
    obs,         \* onAuthStateChanged observer: "off", "pending" (first call due), "on"
    apc,         \* the sign-in that is awaited: "idle", "token", "anon", "fallback"
    store,       \* the weight entries persisted: [userId, key, weight]
    now,         \* the clock new Date() reads, in milliseconds
    saves,       \* weight submissions whose setDoc was fulfilled
    weightInput, \* weight (RecordWeight), currentWeight (WeightTracker)
    saving,      \* loading (RecordWeight), isSaving (index.jsx): a setDoc is awaited
    description, \* record.mealDescription / skinRecord.notes is not empty (index.jsx)
    records,     \* the documents of nutrition_history and skin_journal, in order of creation
    saveMessage, \* message (RecordWeight), saveMessage (WeightTracker)
    lastSave     \* the last run of a save handler: what it read, whether it called setDoc

wvars == <<wrapper, pc, maxRetries, i, retries, delay, lastError, calls, sleeps, raised>>
tvars == <<tool, tpc, image, entries, loading, message, aiResponse, activeTool, pending>>
fvars == <<feed, snap, data, prev, lastEvent, feedError, estab>>
avars == <<app, activeTab, token, db, userId, isAuthReady, currentUser, obs, apc>>
svars == <<store, saveMessage, lastSave, now, saves, weightInput, saving, description, records>>
xvars == <<fvars, avars, svars>>
vars == <<wrapper, pc, maxRetries, i, retries, delay, lastError, calls, sleeps, raised,
          tool, tpc, image, entries, loading, message, aiResponse, activeTool, pending,
          feed, snap, data, prev, lastEvent, feedError, estab,
          app, activeTab, token, db, userId, isAuthReady, currentUser, obs, apc,
          store, saveMessage, lastSave, now, saves, weightInput, saving, description, records>>

Init ==
    /\ wrapper = "none"
    /\ pc = "idle"
    /\ maxRetries = 0
    /\ i = 0
    /\ retries = 0
    /\ delay = 0
    /\ lastError = NoError
    /\ calls = <<>>
    /\ sleeps = <<>>
    /\ raised = NoError
    /\ tool = "none"
    /\ tpc = "idle"
    /\ image = FALSE
    /\ entries = 0
    /\ loading = FALSE
    /\ message = "null"
    /\ aiResponse = "null"
    /\ activeTool = "none"
    /\ pending = 0
    /\ feed = "none"
    /\ snap = <<>>
    /\ data = <<>>
    /\ prev = <<>>
    /\ lastEvent = "none"
    /\ feedError = FALSE
    /\ estab = NoSub
    /\ app = "none"
    /\ activeTab = "home"
    /\ token = FALSE
    /\ db = FALSE
    /\ userId = "null"
    /\ isAuthReady = FALSE
    /\ currentUser = "null"
    /\ obs = "off"
    /\ apc = "idle"
    /\ store = {}
    /\ now = 1
    /\ saves = 0
    /\ weightInput = ""
    /\ saving = FALSE
    /\ description = FALSE
    /\ records = <<>>
    /\ saveMessage = ""
    /\ lastSave = NoSave

\* the state a wrapper starts in when it is called
Called(w, n) ==
    /\ wrapper' = w
    /\ pc' = "loop"
    /\ maxRetries' = n
    /\ i' = 0
    /\ retries' = IF w = "rec" THEN n ELSE 0
    /\ delay' = IF w = "rec" THEN BaseDelay ELSE 0
    /\ lastError' = NoError
    /\ calls' = <<>>
    /\ sleeps' = <<>>
    /\ raised' = NoError

Finished == pc \in {"idle", "returned", "failed", "undefined"}

\* =================================================== fetchWithRetry
\* HealthTrackerApp.jsx: for (let i = 0; i < maxRetries; i++)
RetryLoopTest(idx, n) == idx < n

\* the error thrown inside the try block for outcome o
RetryThrown(o, a) ==
    IF o.kind = "transport" THEN Err("transport", 0, a)
    ELSE IF o.status = 429 \/ o.status >= 500 THEN Err("status", o.status, a)
    ELSE IF o.body = "bad" THEN Err("parse", 0, a)
    ELSE IF o.body = "msg" THEN Err("bodymsg", 0, a)
    ELSE Err("status", o.status, a)

\* catch: if (i === maxRetries - 1) throw error
RetryIsLastNever(idx, n) == idx = n
RetryIsLast(idx, n) == idx = n - 1

\* Math.pow(2, i) * 1000
RetryBackoffDoubled(idx) == Pow2(idx + 1) * BaseDelay
RetryBackoff(idx) == Pow2(idx) * BaseDelay

RetryEnter ==
    /\ wrapper = "fetchWithRetry" /\ pc = "loop"
    /\ IF RetryLoopTest(i, maxRetries)
         THEN pc' = "await"
         ELSE pc' = "undefined"
    /\ UNCHANGED <<wrapper, maxRetries, i, retries, delay, lastError, calls, sleeps, raised>>
    /\ UNCHANGED tvars
    /\ UNCHANGED xvars

RetryResponse ==
    /\ wrapper = "fetchWithRetry" /\ pc = "await"
    /\ \E o \in Outcomes, j \in JitterVals :
        /\ calls' = Append(calls, o)
        /\ IF IsOk(o)
             THEN /\ pc' = "returned"
                  /\ UNCHANGED <<sleeps, raised>>
             ELSE IF RetryIsLast(i, maxRetries)
                    THEN /\ pc' = "failed"
                         /\ raised' = RetryThrown(o, Len(calls))
                         /\ UNCHANGED sleeps
                    ELSE /\ pc' = "sleep"
                         /\ sleeps' = Append(sleeps, [base |-> RetryBackoff(i), jitter |-> j])
                         /\ UNCHANGED raised
    /\ UNCHANGED <<wrapper, maxRetries, i, retries, delay, lastError>>
    /\ UNCHANGED tvars
    /\ UNCHANGED xvars

RetryWake ==
    /\ wrapper = "fetchWithRetry" /\ pc = "sleep"
    /\ i' = i + 1
    /\ pc' = "loop"
    /\ UNCHANGED <<wrapper, maxRetries, retries, delay, lastError, calls, sleeps, raised>>
    /\ UNCHANGED tvars
    /\ UNCHANGED xvars

\* ============================================ fetchWithBackoff (part_000)
\* for (let attempt = 0; attempt < 3; attempt++)
LoopTest(attempt) == attempt < LoopAttempts

\* the error thrown inside the try block: the body is decoded before the
\* status is put into the message
LoopThrown(o, a) ==
    IF o.kind = "transport" THEN Err("transport", 0, a)
    ELSE IF o.body = "bad" THEN Err("parse", 0, a)
    ELSE Err("status", o.status, a)

\* if (attempt < 2)
LoopSleepsAlways(attempt) == attempt < 3
LoopSleeps(attempt) == attempt < 2

\* Math.pow(2, attempt) * 1000
LoopBackoff(attempt) == Pow2(attempt) * BaseDelay

LoopEnter ==
    /\ wrapper = "loop" /\ pc = "loop"
    /\ IF LoopTest(i)
         THEN /\ pc' = "await"
              /\ UNCHANGED raised
         ELSE \* throw new Error(`Failed after multiple retries: ${lastError.message}`)
              /\ pc' = "failed"
              /\ raised' = lastError
    /\ UNCHANGED <<wrapper, maxRetries, i, retries, delay, lastError, calls, sleeps>>
    /\ UNCHANGED tvars
    /\ UNCHANGED xvars

LoopResponse ==
    /\ wrapper = "loop" /\ pc = "await"
    /\ \E o \in Outcomes :
        /\ calls' = Append(calls, o)
        /\ IF IsOk(o)
             THEN /\ pc' = "returned"
                  /\ UNCHANGED <<lastError, sleeps, i>>
             ELSE /\ lastError' = LoopThrown(o, Len(calls))
                  /\ IF LoopSleeps(i)
                       THEN /\ pc' = "sleep"
                            /\ sleeps' = Append(sleeps, [base |-> LoopBackoff(i), jitter |-> 0])
                            /\ UNCHANGED i
                       ELSE /\ pc' = "loop"
                            /\ i' = i + 1
                            /\ UNCHANGED sleeps
    /\ UNCHANGED <<wrapper, maxRetries, retries, delay, raised>>
    /\ UNCHANGED tvars
    /\ UNCHANGED xvars

LoopWake ==
    /\ wrapper = "loop" /\ pc = "sleep"
    /\ i' = i + 1
    /\ pc' = "loop"
    /\ UNCHANGED <<wrapper, maxRetries, retries, delay, lastError, calls, sleeps, raised>>
    /\ UNCHANGED tvars
    /\ UNCHANGED xvars

\* ============================================ fetchWithBackoff (index.jsx)
\* if (response.status === 429 && retries > 0)
RecRetries429(o, r) == o.kind = "http" /\ o.status = 429 /\ r > 0

\* throw new Error(`API call failed: ${response.status} - ${errorBody}`), or
\* the rejection of fetch itself
RecThrown(o, a) ==
    IF o.kind = "transport" THEN Err("transport", 0, a)
    ELSE Err("status", o.status, a)

\* error.message.includes('API call failed: 5')
RecMessageIs5xx(e) == e.kind = "status" /\ e.status >= 500 /\ e.status <= 599

\* catch: if (retries > 0 && error.message.includes('API call failed: 5'))
RecRetriesCaught(e, r) == r > 0 /\ RecMessageIs5xx(e)

RecEnter ==
    /\ wrapper = "rec" /\ pc = "loop"
    /\ pc' = "await"
    /\ UNCHANGED <<wrapper, maxRetries, i, retries, delay, lastError, calls, sleeps, raised>>
    /\ UNCHANGED tvars
    /\ UNCHANGED xvars

RecResponse ==
    /\ wrapper = "rec" /\ pc = "await"
    /\ \E o \in Outcomes :
        /\ calls' = Append(calls, o)
        /\ IF RecRetries429(o, retries)
             THEN /\ pc' = "sleep"
                  /\ sleeps' = Append(sleeps, [base |-> delay, jitter |-> 0])
                  /\ UNCHANGED raised
             ELSE IF IsOk(o)
                    THEN /\ pc' = "returned"
                         /\ UNCHANGED <<sleeps, raised>>
                    ELSE IF RecRetriesCaught(RecThrown(o, Len(calls)), retries)
                           THEN /\ pc' = "sleep"
                                /\ sleeps' = Append(sleeps, [base |-> delay, jitter |-> 0])
                                /\ UNCHANGED raised
                           ELSE /\ pc' = "failed"
                                /\ raised' = RecThrown(o, Len(calls))
                                /\ UNCHANGED sleeps
    /\ UNCHANGED <<wrapper, maxRetries, i, retries, delay, lastError>>
    /\ UNCHANGED tvars
    /\ UNCHANGED xvars

\* return fetchWithBackoff(url, options, retries - 1, delay * 2)
RecWake ==
    /\ wrapper = "rec" /\ pc = "sleep"
    /\ retries' = retries - 1
    /\ delay' = delay * 2
    /\ pc' = "loop"
    /\ UNCHANGED <<wrapper, maxRetries, i, lastError, calls, sleeps, raised>>
    /\ UNCHANGED tvars
    /\ UNCHANGED xvars

\* ================================================= direct invocations
InvokeRetry ==
    /\ Finished
    /\ \E n \in Budgets : Called("fetchWithRetry", n)
    /\ UNCHANGED tvars
    /\ UNCHANGED xvars

InvokeLoop ==
    /\ Finished
    /\ Called("loop", LoopAttempts)
    /\ UNCHANGED tvars
    /\ UNCHANGED xvars

InvokeRec ==
    /\ Finished
    /\ \E n \in Budgets : Called("rec", n)
    /\ UNCHANGED tvars
    /\ UNCHANGED xvars

WrapperStep ==
    \/ RetryEnter \/ RetryResponse \/ RetryWake
    \/ LoopEnter \/ LoopResponse \/ LoopWake
    \/ RecEnter \/ RecResponse \/ RecWake

NextRetry == InvokeRetry \/ InvokeLoop \/ InvokeRec \/ WrapperStep

SpecRetry == Init /\ [][NextRetry]_vars

\* ======================================================= tool handlers
AppTools == {"handleAnalyzeFood", "analyzeSkinImage"}
PartTools == {"photoAnalysis", "SkinJournal.handleSubmit"}
IndexTools == {"analyzeSkin"}
IndexMealTools == {"analyzeMeal"}
AppAdviceTools == {"handleGetAdvice"}
PartAdviceTools == {"progressTips"}

\* the text shown when the response has no text: part_000 and index.jsx put
\* it in aiResponse, HealthTrackerApp.jsx throws it and shows it after the
\* handler's own prefix
FallbackResponse == "Error: No se pudo obtener respuesta de la IA."
NoTextError == "No se pudo obtener la respuesta de la IA."

\* tabs of the two AI panels: the one a panel opens with and the tabs of the
\* two handlers modelled here (the symptom tab is a third text tool)
AppTabs == {"meal", "food", "advice"}
PartTabs == {"mealPlan", "photoAnalysis", "progressTips"}

\* the tab a handler belongs to; "none" for the handlers of the skin views,
\* which are rendered instead of the panel
TabOf(t) ==
    CASE t = "handleAnalyzeFood" -> "food"
      [] t = "handleGetAdvice" -> "advice"
      [] t = "photoAnalysis" -> "photoAnalysis"
      [] t = "progressTips" -> "progressTips"
      [] OTHER -> "none"

\* the handler's button can be pressed: its panel shows the handler's tab
OnTab(t) == TabOf(t) = "none" \/ activeTool = TabOf(t)

\* finally { setLoading(false) }: runs whether the try block returned or threw
LoadingAfterCleanExitOnly(thrown) == thrown
LoadingAfter(thrown) == FALSE

\* disabled={loading || ...}: the other disjunct repeats the handler's own
\* test of its input
AppSubmitEnabledAlways(l) == FALSE
AppSubmitDisabled(l) == l
\* disabled={isLoading || ...}
PartSubmitDisabled(l) == l
\* disabled={isLoading || isSaving || !skinRecord.base64Image}
IndexSubmitDisabled(l, sv) == l \/ sv

\* no wrapper is called: nothing is in flight and the logs are empty
NotCalled ==
    /\ wrapper' = "none"
    /\ pc' = "idle"
    /\ maxRetries' = 0
    /\ i' = 0
    /\ retries' = 0
    /\ delay' = 0
    /\ lastError' = NoError
    /\ calls' = <<>>
    /\ sleeps' = <<>>
    /\ raised' = NoError

\* HealthTrackerApp.jsx: if (!foodImageFile), if (!imageFile)
AppImageMissing(img) == ~img

\* part_000: if (!base64Image)
PartImageMissing(img) == ~img

\* index.jsx: if (!skinRecord.base64Image)
IndexImageCheckDropped(img) == FALSE
IndexImageMissing(img) == ~img

\* response.candidates?.[0]?.content?.parts?.[0]?.text
HasTextAlways(o) == TRUE
HasText(o) == o.body = "text"

\* handleAnalyzeFood, analyzeSkinImage: up to the await of fileToBase64
AppSubmit ==
    /\ ~AppSubmitDisabled(loading)
    /\ \E t \in AppTools, img \in BOOLEAN :
        /\ OnTab(t)
        /\ tool' = t
        /\ activeTool' = TabOf(t)
        /\ image' = img
        /\ entries' = 0
        /\ IF AppImageMissing(img)
             THEN /\ message' = "validation"
                  /\ tpc' = "rejected"
                  /\ UNCHANGED <<loading, aiResponse, pending>>
             ELSE /\ message' = "null"
                  /\ aiResponse' = "null"
                  /\ loading' = TRUE
                  /\ pending' = pending + 1
                  /\ tpc' = "converting"
    /\ NotCalled
    /\ UNCHANGED xvars

\* fileToBase64 resolves and generateMultimodalContent calls fetchWithRetry,
\* or it rejects and the handler's catch and finally run
AppConverted ==
    /\ tool \in AppTools /\ tpc = "converting"
    /\ \E fileOk \in BOOLEAN :
        IF fileOk
          THEN /\ Called("fetchWithRetry", DefaultMaxRetries)
               /\ tpc' = "generating"
               /\ UNCHANGED <<loading, message, pending>>
          ELSE /\ message' = "failure"
               /\ loading' = FALSE
               /\ pending' = pending - 1
               /\ tpc' = "done"
               /\ UNCHANGED wvars
    /\ UNCHANGED <<tool, image, entries, aiResponse, activeTool>>
    /\ UNCHANGED xvars

\* the rest of the handler once fetchWithRetry has settled
AppFinish ==
    /\ tool \in AppTools \cup AppAdviceTools /\ tpc = "generating" /\ Finished
    /\ IF pc = "returned" /\ HasText(calls[Len(calls)])
         THEN /\ aiResponse' = "text"
              /\ UNCHANGED message
         ELSE /\ message' = IF pc = "returned" THEN NoTextError ELSE "failure"
              /\ UNCHANGED aiResponse
    /\ loading' = LoadingAfter(pc # "returned")
    /\ pending' = pending - 1
    /\ tpc' = "done"
    /\ UNCHANGED <<tool, image, entries, activeTool>>
    /\ UNCHANGED wvars
    /\ UNCHANGED xvars

\* AITools.handleSubmit (photoAnalysis) and SkinJournal.handleSubmit, with
\* the start of generateAIResponse
PartSubmit ==
    /\ ~PartSubmitDisabled(loading)
    /\ \E t \in PartTools, img \in BOOLEAN :
        /\ OnTab(t)
        /\ tool' = t
        /\ activeTool' = TabOf(t)
        /\ image' = img
        /\ entries' = 0
        /\ IF PartImageMissing(img)
             THEN /\ aiResponse' = "validation"
                  /\ tpc' = "rejected"
                  /\ UNCHANGED <<loading, pending>>
                  /\ NotCalled
             ELSE /\ loading' = TRUE
                  /\ pending' = pending + 1
                  /\ aiResponse' = "null"
                  /\ tpc' = "generating"
                  /\ Called("loop", LoopAttempts)
    /\ UNCHANGED message
    /\ UNCHANGED xvars

\* the rest of generateAIResponse once fetchWithBackoff has settled
PartFinish ==
    /\ tool \in PartTools \cup PartAdviceTools /\ tpc = "generating" /\ Finished
    /\ aiResponse' = IF pc = "returned"
                       THEN (IF HasText(calls[Len(calls)]) THEN "text" ELSE FallbackResponse)
                       ELSE "failure"
    /\ loading' = LoadingAfter(pc # "returned")
    /\ pending' = pending - 1
    /\ tpc' = "done"
    /\ UNCHANGED <<tool, image, entries, message, activeTool>>
    /\ UNCHANGED wvars
    /\ UNCHANGED xvars

\* analyzeSkin with the start of runGeneration (the prompt is never empty)
IndexSubmit ==
    /\ ~IndexSubmitDisabled(loading, saving)
    /\ \E t \in IndexTools, img \in BOOLEAN :
        /\ tool' = t
        /\ activeTool' = TabOf(t)
        /\ image' = img
        /\ entries' = 0
        /\ IF IndexImageMissing(img)
             THEN /\ message' = "validation"
                  /\ tpc' = "rejected"
                  /\ UNCHANGED <<loading, aiResponse, pending>>
                  /\ NotCalled
             ELSE /\ message' = "info"
                  /\ aiResponse' = "null"
                  /\ loading' = TRUE
                  /\ pending' = pending + 1
                  /\ tpc' = "generating"
                  /\ Called("rec", DefaultRetries)
    /\ UNCHANGED xvars

\* the rest of runGeneration once fetchWithBackoff has settled, then
\* setMessage('') in analyzeSkin
IndexFinish ==
    /\ tool \in IndexTools /\ tpc = "generating" /\ Finished
    /\ aiResponse' = IF pc = "returned"
                       THEN (IF HasText(calls[Len(calls)]) THEN "text" ELSE FallbackResponse)
                       ELSE "failure"
    /\ loading' = LoadingAfter(pc # "returned")
    /\ pending' = pending - 1
    /\ message' = "null"
    /\ tpc' = "done"
    /\ UNCHANGED <<tool, image, entries, activeTool>>
    /\ UNCHANGED wvars
    /\ UNCHANGED xvars

\* HealthTrackerApp.jsx: if (weightData.length < 2)
AdviceTooFew(n) == n < 2

\* handleGetAdvice up to the call of generateContent; the validation exit
\* sets loading and clears it again before it returns
AppAdvice ==
    /\ ~AppSubmitDisabled(loading)
    /\ OnTab("handleGetAdvice")
    /\ \E n \in 0..MaxEntries :
        /\ tool' = "handleGetAdvice"
        /\ entries' = n
        /\ image' = FALSE
        /\ aiResponse' = "null"
        /\ IF AdviceTooFew(n)
             THEN /\ message' = "validation"
                  /\ loading' = FALSE
                  /\ tpc' = "rejected"
                  /\ NotCalled
                  /\ UNCHANGED pending
             ELSE /\ message' = "null"
                  /\ loading' = TRUE
                  /\ pending' = pending + 1
                  /\ tpc' = "generating"
                  /\ Called("fetchWithRetry", DefaultMaxRetries)
    /\ UNCHANGED activeTool
    /\ UNCHANGED xvars

\* AITools.handleSubmit (progressTips): the summary is built from whatever
\* history there is, then generateAIResponse starts
PartAdvice ==
    /\ ~PartSubmitDisabled(loading)
    /\ OnTab("progressTips")
    /\ \E n \in 0..MaxEntries :
        /\ tool' = "progressTips"
        /\ entries' = n
    /\ image' = FALSE
    /\ loading' = TRUE
    /\ pending' = pending + 1
    /\ aiResponse' = "null"
    /\ tpc' = "generating"
    /\ Called("loop", LoopAttempts)
    /\ UNCHANGED <<message, activeTool>>
    /\ UNCHANGED xvars

\* AiTools (HealthTrackerApp.jsx) or AITools (part_000) is mounted: the
\* panel starts on its first tab with nothing shown
OpenPanel(first) ==
    /\ ~loading
    /\ activeTool' = first
    /\ tool' = "none"
    /\ tpc' = "idle"
    /\ image' = FALSE
    /\ entries' = 0
    /\ message' = "null"
    /\ aiResponse' = "null"
    /\ NotCalled
    /\ UNCHANGED <<loading, pending>>
    /\ UNCHANGED xvars

AppOpenPanel == OpenPanel("meal")

PartOpenPanel == OpenPanel("mealPlan")

\* what a tab button leaves of the last invocation: a pending one goes on,
\* a finished one is forgotten with the result it left
Forgotten ==
    IF loading
      THEN UNCHANGED <<tool, tpc, image, entries>> /\ UNCHANGED wvars
      ELSE /\ tool' = "none"
           /\ tpc' = "idle"
           /\ image' = FALSE
           /\ entries' = 0
           /\ NotCalled

\* a tab button of AiTools: setActiveTool(tab); setResult(null); setError(null)
AppSwitchTool ==
    /\ activeTool \in AppTabs
    /\ \E t \in AppTabs : activeTool' = t
    /\ aiResponse' = "null"
    /\ message' = "null"
    /\ Forgotten
    /\ UNCHANGED <<loading, pending>>
    /\ UNCHANGED xvars

\* a tool button of AITools: setCurrentTool(tool); setAiResponse(null);
\* setPrompt(''); setBase64Image(null)
PartSwitchTool ==
    /\ activeTool \in PartTabs
    /\ \E t \in PartTabs : activeTool' = t
    /\ aiResponse' = "null"
    /\ Forgotten
    /\ UNCHANGED <<loading, message, pending>>
    /\ UNCHANGED xvars

NextTools ==
    \/ AppSubmit \/ AppConverted \/ AppFinish
    \/ PartSubmit \/ PartFinish
    \/ IndexSubmit \/ IndexFinish
    \/ AppAdvice \/ PartAdvice
    \/ AppOpenPanel \/ PartOpenPanel \/ AppSwitchTool \/ PartSwitchTool
    \/ WrapperStep

SpecTools == Init /\ [][NextTools]_vars

\* every call that is awaited settles in the end: the fetch, the backoff
\* sleep, the image conversion, and the handler then runs on
SpecToolsLive ==
    /\ Init /\ [][NextTools]_vars
    /\ WF_vars(WrapperStep)
    /\ WF_vars(AppConverted) /\ WF_vars(AppFinish)
    /\ WF_vars(PartFinish) /\ WF_vars(IndexFinish)

\* ==================================================== change-feed listeners
\* A stored document is [id, ts, weight]: the document key, its timestamp
\* field and its weight field.  A weights document is keyed by its timestamp
\* (setDoc(doc(db, path, timestamp), ...)); a nutrition_history or
\* skin_journal document has a generated key, so two of them can carry the
\* same timestamp.  Every document the programs write has a timestamp.
Timestamps == 1..MaxTs
\* the weights collection holds one document per timestamp
WeightAt(t) == 82 - 2 * t
WeightDocs == {[id |-> t, ts |-> t, weight |-> WeightAt(t)] : t \in Timestamps}
\* the history collections hold two documents per timestamp
HistoryAt(k) == (k + 1) \div 2
HistoryDocs == {[id |-> k, ts |-> HistoryAt(k), weight |-> 0] : k \in 1..MaxDocs}
\* new Date() when a snapshot is projected: later than every stored timestamp
Clock == {MaxTs + 1, MaxTs + 2}

\* the snapshots of a collection: up to n documents with distinct keys, in
\* the order the store delivers them
RECURSIVE Snapshots(_, _)
Snapshots(D, n) ==
    IF n = 0 THEN {<<>>}
    ELSE LET P == Snapshots(D, n - 1)
         IN  P \cup {Append(pd[1], pd[2]) :
                      pd \in {q \in P \X D :
                                /\ Len(q[1]) = n - 1
                                /\ \A k \in 1..Len(q[1]) : q[1][k].id # q[2].id}}

WeightSnapshots == Snapshots(WeightDocs, MaxDocs)
HistorySnapshots == Snapshots(HistoryDocs, MaxDocs)

WeightFeeds == {"HealthTrackerApp.weights", "part_000.weights"}
IndexFeeds == {"nutrition_history", "skin_journal"}

\* (a, b) => new Date(a.timestamp) - new Date(b.timestamp)
WeightCmpDescending(a, b) == b.ts - a.ts
WeightCmp(a, b) == a.ts - b.ts
\* (a, b) => b.timestamp - a.timestamp
HistoryCmp(a, b) == b.ts - a.ts
\* WeightHistory: (a, b) => new Date(b.timestamp) - new Date(a.timestamp)
TableCmpAscending(a, b) == a.ts - b.ts
TableCmp(a, b) == b.ts - a.ts

Compare(by, a, b) ==
    CASE by = "weights" -> WeightCmp(a, b)
      [] by = "history" -> HistoryCmp(a, b)
      [] by = "table" -> TableCmp(a, b)

\* Array.prototype.sort is a stable sort: an element goes behind the
\* elements it does not compare less than
SortPlaceBefore(by, x, h) == Compare(by, x, h) < 0

RECURSIVE SortPlace(_, _, _)
SortPlace(by, x, s) ==
    IF s = <<>> THEN <<x>>
    ELSE IF SortPlaceBefore(by, x, Head(s)) THEN <<x>> \o s
    ELSE <<Head(s)>> \o SortPlace(by, x, Tail(s))

RECURSIVE Sort(_, _)
Sort(by, s) ==
    IF s = <<>> THEN <<>>
    ELSE SortPlace(by, s[Len(s)], Sort(by, SubSeq(s, 1, Len(s) - 1)))

\* doc.data() of a weights document: {weight, timestamp, date}
AppRecord(d) == [ts |-> d.ts, weight |-> d.weight]
\* {id: doc.id, ...doc.data()}
PartRecord(d) == [id |-> d.id, ts |-> d.ts, weight |-> d.weight]
\* doc.data().timestamp ? new Date(doc.data().timestamp) : new Date()
IndexTimestampNow(d, t) == t
IndexTimestamp(d, t) == IF d.ts # 0 THEN d.ts ELSE t
IndexRecord(d, t) == [id |-> d.id, ts |-> IndexTimestamp(d, t), weight |-> d.weight]

AppProject(s) == Sort("weights", [k \in 1..Len(s) |-> AppRecord(s[k])])
PartProject(s) == Sort("weights", [k \in 1..Len(s) |-> PartRecord(s[k])])
IndexProject(s, t) == Sort("history", [k \in 1..Len(s) |-> IndexRecord(s[k], t)])

\* the same snapshot delivered again to the listener that already had it
Redelivered(s) == lastEvent \in {"snapshot", "redelivery"} /\ s = snap

Delivered(s) ==
    /\ snap' = s
    /\ lastEvent' = IF Redelivered(s) THEN "redelivery" ELSE "snapshot"
    /\ prev' = IF Redelivered(s) THEN data ELSE <<>>
    /\ UNCHANGED <<feed, estab>>

AppSnapshot ==
    /\ feed = "HealthTrackerApp.weights"
    /\ \E s \in WeightSnapshots :
        /\ data' = AppProject(s)
        /\ Delivered(s)
    /\ UNCHANGED <<feedError, avars, wvars, tvars, svars>>

AppFeedError ==
    /\ feed = "HealthTrackerApp.weights"
    /\ data' = <<>>
    /\ lastEvent' = "error"
    /\ UNCHANGED <<feed, estab, snap, prev, feedError, avars, wvars, tvars, svars>>

PartSnapshot ==
    /\ feed = "part_000.weights"
    /\ \E s \in WeightSnapshots :
        /\ data' = PartProject(s)
        /\ Delivered(s)
    /\ UNCHANGED <<feedError, avars, wvars, tvars, svars>>

PartFeedError ==
    /\ feed = "part_000.weights"
    /\ lastEvent' = "error"
    /\ UNCHANGED <<feed, estab, snap, prev, data, feedError, avars, wvars, tvars, svars>>

IndexSnapshot ==
    /\ feed \in IndexFeeds
    /\ \E s \in HistorySnapshots, t \in Clock :
        /\ data' = IndexProject(s, t)
        /\ Delivered(s)
    /\ UNCHANGED <<feedError, avars, wvars, tvars, svars>>

IndexFeedError ==
    /\ feed \in IndexFeeds
    /\ feedError' = TRUE
    /\ lastEvent' = "error"
    /\ UNCHANGED <<feed, estab, snap, prev, data, avars, wvars, tvars, svars>>

\* WeightHistory (HealthTrackerApp.jsx) and the summary of WeightTracker
\* (part_000), computed from weightData
AppInitialWeight(wd) == wd[1].weight
AppCurrentWeight(wd) == wd[Len(wd)].weight
AppDifference(wd) == AppCurrentWeight(wd) - AppInitialWeight(wd)
AppSortedData(wd) == Sort("table", wd)
PartInitialWeight(wd) == IF Len(wd) > 0 THEN wd[1].weight ELSE 0
PartLatestWeight(wd) == IF Len(wd) > 0 THEN wd[Len(wd)].weight ELSE 0
PartChange(wd) == PartLatestWeight(wd) - PartInitialWeight(wd)

\* ======================================================= weight entries
\* what the user can have typed into the weight field
WeightInputs == {"", "abc", "0", "-5", "75", "12abc"}

\* parseFloat: the longest numeric prefix, NaN when there is none
NaN == [nan |-> TRUE, val |-> 0]
Num(n) == [nan |-> FALSE, val |-> n]
ParseFloat(str) ==
    CASE str = "" -> NaN
      [] str = "abc" -> NaN
      [] str = "0" -> Num(0)
      [] str = "-5" -> Num(-5)
      [] str = "75" -> Num(75)
      [] str = "12abc" -> Num(12)

\* isNaN(numericWeight) || numericWeight <= 0
InvalidWeightZeroAllowed(x) == x.nan \/ x.val < 0
InvalidWeight(x) == x.nan \/ x.val <= 0

\* if (!db || !userId)
AppSaveNotReady(d, u) == ~d \/ u = "null"
\* if (!db || !userId || !currentWeight)
PartSaveNotReady(d, u, str) == ~d \/ u = "null" \/ str = ""

\* doc(db, `artifacts/${appId}/users/${userId}/weights`, timestamp) with
\* timestamp = new Date().toISOString(): the clock reading to the millisecond
WeightDoc(run) ==
    [userId |-> run.userId, key |-> run.key, weight |-> ParseFloat(run.input).val]

\* setDoc on a document reference: the document with that path is created,
\* or replaced when it exists
SetDoc(st, doc) ==
    {e \in st : ~(e.userId = doc.userId /\ e.key = doc.key)} \cup {doc}

\* the handlers of index.jsx that write a record
IndexSaves == {"saveRecord", "saveSkinRecord"}

\* dataToSave of saveRecord and of saveSkinRecord, with the collection it
\* goes to; doc(collection) gives it a fresh id, here its place in records
IndexDoc(run) ==
    [coll |-> IF run.handler = "saveRecord" THEN "nutrition_history" ELSE "skin_journal",
     userId |-> run.userId,
     description |-> run.description,
     analysis |-> IF run.analysis # "null" THEN run.analysis ELSE "Analisis pendiente",
     hasImage |-> IF run.handler = "saveRecord" THEN run.image ELSE TRUE]

\* the outcomes of an awaited write: fulfilled or rejected; fulfilled weight
\* writes are counted up to MaxSaves, stored records up to MaxRecords
WriteOutcomes(run) ==
    IF run.handler \in IndexSaves
      THEN (IF Len(records) < MaxRecords THEN BOOLEAN ELSE {FALSE})
      ELSE (IF saves < MaxSaves THEN BOOLEAN ELSE {FALSE})

\* the awaited setDoc of a run is fulfilled
Written(run) ==
    IF run.handler \in IndexSaves
      THEN /\ records' = Append(records, IndexDoc(run))
           /\ UNCHANGED <<store, saves>>
      ELSE /\ store' = SetDoc(store, WeightDoc(run))
           /\ saves' = saves + 1
           /\ records' = records

\* a write still awaited when its component goes away is fulfilled or not
Abandoned ==
    IF saving
      THEN \E ok \in WriteOutcomes(lastSave) :
             IF ok THEN Written(lastSave) ELSE UNCHANGED <<store, records, saves>>
      ELSE UNCHANGED <<store, records, saves>>

\* the state of a view that is unmounted is lost, and what its pending
\* handlers set later is never rendered
ViewReset ==
    /\ tool' = "none"
    /\ tpc' = "idle"
    /\ image' = FALSE
    /\ entries' = 0
    /\ loading' = FALSE
    /\ message' = "null"
    /\ aiResponse' = "null"
    /\ activeTool' = "none"
    /\ pending' = 0
    /\ NotCalled
    /\ saveMessage' = ""
    /\ lastSave' = NoSave
    /\ weightInput' = ""
    /\ description' = FALSE
    /\ saving' = FALSE
    /\ Abandoned
    /\ UNCHANGED now

\* ============================================= authentication and effects
Apps == {"HealthTrackerApp", "part_000", "index.jsx"}
Uids == {"uid1", "uid2"}
Sessions == {"null"} \cup Uids

\* if (!db || !userId || !isAuthReady || !auth || !auth.currentUser) return;
AppGuardNoSession(d, u, r, c) == d /\ u # "null" /\ r
AppGuard(d, u, r, c) == d /\ u # "null" /\ r /\ c # "null"
\* if (!dbInstance || !userId || !isAuthReady || !authInstance?.currentUser) return;
PartGuard(d, u, r, c) == d /\ u # "null" /\ r /\ c # "null"
\* if (!db || !isAuthReady || !userId) return;
IndexGuard(d, r, u) == d /\ r /\ u # "null"

\* NutritionTrackerView is rendered on the 'home' tab, SkinJournalView on 'skin'
IndexFeed(t) == IF t = "home" THEN "nutrition_history" ELSE "skin_journal"

\* the listener effect of the mounted App: which feed it listens to and
\* whether its guard lets it subscribe
EffectFeed ==
    CASE app' = "HealthTrackerApp" -> "HealthTrackerApp.weights"
      [] app' = "part_000" -> "part_000.weights"
      [] app' = "index.jsx" -> IndexFeed(activeTab')
      [] OTHER -> "none"

EffectGuard ==
    CASE app' = "HealthTrackerApp" -> AppGuard(db', userId', isAuthReady', currentUser')
      [] app' = "part_000" -> PartGuard(db', userId', isAuthReady', currentUser')
      [] app' = "index.jsx" -> IndexGuard(db', isAuthReady', userId')
      [] OTHER -> FALSE

\* The effect runs after a render in which one of its dependencies
\* [db, userId, isAuthReady] changed, or when its component is mounted: the
\* cleanup of the previous run unsubscribes, then the guard decides whether
\* onSnapshot is called.
Listen(mounted) ==
    IF mounted \/ <<db', userId', isAuthReady'>> # <<db, userId, isAuthReady>>
      THEN /\ feed' = IF EffectGuard THEN EffectFeed ELSE "none"
           /\ estab' = IF EffectGuard
                         THEN [db |-> db', userId |-> userId',
                               isAuthReady |-> isAuthReady', currentUser |-> currentUser']
                         ELSE NoSub
           /\ snap' = <<>>
           /\ prev' = <<>>
           /\ lastEvent' = "none"
      ELSE UNCHANGED <<feed, estab, snap, prev, lastEvent>>

\* useState initial values of a component that is mounted
Mounted(a) ==
    /\ app = "none"
    /\ app' = a
    /\ activeTab' = "home"
    /\ userId' = "null"
    /\ data' = <<>>
    /\ feedError' = FALSE
    /\ \E t \in BOOLEAN : token' = t

\* ------------------------------------------------------ HealthTrackerApp
\* the first effect of App: Firebase is initialised, the observer is
\* registered and authenticate() is started
AppMount ==
    /\ Mounted("HealthTrackerApp")
    /\ \E configured \in BOOLEAN, s \in Sessions :
        IF configured
          THEN /\ db' = TRUE
               /\ isAuthReady' = FALSE
               /\ currentUser' = s
               /\ obs' = "pending"
               /\ apc' = IF token' THEN "token" ELSE "anon"
          ELSE /\ db' = FALSE
               /\ isAuthReady' = TRUE
               /\ currentUser' = "null"
               /\ obs' = "off"
               /\ apc' = "idle"
    /\ UNCHANGED <<wvars, tvars, svars>>
    /\ Listen(TRUE)

\* the callback given to onAuthStateChanged
AppOnAuth(user) ==
    /\ userId' = IF user # "null" THEN user ELSE "random"
    /\ isAuthReady' = TRUE

AppFirstAuthState ==
    /\ app = "HealthTrackerApp" /\ obs = "pending"
    /\ obs' = "on"
    /\ AppOnAuth(currentUser)
    /\ UNCHANGED <<app, activeTab, token, db, currentUser, apc, data, feedError, wvars, tvars, svars>>
    /\ Listen(FALSE)

\* a sign-in awaited by authenticate() settles
AppSignIn ==
    /\ app = "HealthTrackerApp" /\ apc # "idle"
    /\ \E ok \in BOOLEAN, u \in Uids :
        IF ok
          THEN /\ currentUser' = u
               /\ apc' = "idle"
               /\ IF obs = "on" THEN AppOnAuth(u) ELSE UNCHANGED <<userId, isAuthReady>>
          ELSE /\ UNCHANGED <<currentUser, userId>>
               /\ IF apc = "fallback"
                    THEN apc' = "idle" /\ isAuthReady' = TRUE
                    ELSE apc' = "fallback" /\ UNCHANGED isAuthReady
    /\ UNCHANGED <<app, activeTab, token, db, obs, data, feedError, wvars, tvars, svars>>
    /\ Listen(FALSE)

\* the session ends: the observer is called with null
AppSessionEnds ==
    /\ app = "HealthTrackerApp" /\ obs = "on" /\ currentUser # "null"
    /\ currentUser' = "null"
    /\ AppOnAuth("null")
    /\ UNCHANGED <<app, activeTab, token, db, obs, apc, data, feedError, wvars, tvars, svars>>
    /\ Listen(FALSE)

\* --------------------------------------------------------------- part_000
PartMount ==
    /\ Mounted("part_000")
    /\ isAuthReady' = FALSE
    /\ apc' = "idle"
    /\ \E configured \in BOOLEAN, s \in Sessions :
        IF configured
          THEN db' = TRUE /\ currentUser' = s /\ obs' = "pending"
          ELSE db' = FALSE /\ currentUser' = "null" /\ obs' = "off"
    /\ UNCHANGED <<wvars, tvars, svars>>
    /\ Listen(TRUE)

\* the async callback given to onAuthStateChanged, up to its first await
PartOnAuth(user) ==
    IF user # "null"
      THEN userId' = user /\ isAuthReady' = TRUE /\ apc' = "idle"
      ELSE /\ apc' = IF token THEN "token" ELSE "anon"
           /\ UNCHANGED <<userId, isAuthReady>>

PartFirstAuthState ==
    /\ app = "part_000" /\ obs = "pending"
    /\ obs' = "on"
    /\ PartOnAuth(currentUser)
    /\ UNCHANGED <<app, activeTab, token, db, currentUser, data, feedError, wvars, tvars, svars>>
    /\ Listen(FALSE)

\* the sign-in the callback awaits settles; on success the observer is
\* called with the user as well
PartSignIn ==
    /\ app = "part_000" /\ apc # "idle"
    /\ \E ok \in BOOLEAN, u \in Uids :
        IF ok
          THEN currentUser' = u /\ userId' = u /\ isAuthReady' = TRUE /\ apc' = "idle"
          ELSE /\ UNCHANGED currentUser
               /\ CASE apc = "token" -> apc' = "fallback" /\ UNCHANGED <<userId, isAuthReady>>
                    [] apc = "fallback" -> apc' = "idle" /\ isAuthReady' = TRUE /\ UNCHANGED userId
                    [] apc = "anon" -> /\ apc' = "idle"
                                       /\ userId' = "anonymous-error"
                                       /\ isAuthReady' = TRUE
    /\ UNCHANGED <<app, activeTab, token, db, obs, data, feedError, wvars, tvars, svars>>
    /\ Listen(FALSE)

PartSessionEnds ==
    /\ app = "part_000" /\ obs = "on" /\ apc = "idle" /\ currentUser # "null"
    /\ currentUser' = "null"
    /\ PartOnAuth("null")
    /\ UNCHANGED <<app, activeTab, token, db, obs, data, feedError, wvars, tvars, svars>>
    /\ Listen(FALSE)

\* -------------------------------------------------- index.jsx (useFirebase)
IndexMount ==
    /\ Mounted("index.jsx")
    /\ apc' = "idle"
    /\ \E initialised \in BOOLEAN, s \in Sessions :
        IF initialised
          THEN db' = TRUE /\ isAuthReady' = FALSE /\ currentUser' = s /\ obs' = "pending"
          ELSE db' = FALSE /\ isAuthReady' = TRUE /\ currentUser' = "null" /\ obs' = "off"
    /\ UNCHANGED <<wvars, tvars, svars>>
    /\ Listen(TRUE)

IndexOnAuthTokenAssumed(user) ==
    IF user # "null"
      THEN userId' = user /\ isAuthReady' = TRUE /\ apc' = "idle"
      ELSE apc' = "token" /\ UNCHANGED <<userId, isAuthReady>>

IndexOnAuth(user) ==
    IF user # "null"
      THEN userId' = user /\ isAuthReady' = TRUE /\ apc' = "idle"
      ELSE /\ apc' = IF token THEN "token" ELSE "anon"
           /\ UNCHANGED <<userId, isAuthReady>>

IndexFirstAuthState ==
    /\ app = "index.jsx" /\ obs = "pending"
    /\ obs' = "on"
    /\ IndexOnAuth(currentUser)
    /\ UNCHANGED <<app, activeTab, token, db, currentUser, data, feedError, wvars, tvars, svars>>
    /\ Listen(FALSE)

IndexSignIn ==
    /\ app = "index.jsx" /\ apc # "idle"
    /\ \E ok \in BOOLEAN, u \in Uids :
        IF ok
          THEN currentUser' = u /\ userId' = u /\ isAuthReady' = TRUE /\ apc' = "idle"
          ELSE /\ UNCHANGED currentUser
               /\ CASE apc = "token" -> apc' = "fallback" /\ UNCHANGED <<userId, isAuthReady>>
                    [] apc = "fallback" -> apc' = "idle" /\ UNCHANGED <<userId, isAuthReady>>
                    [] apc = "anon" -> apc' = "idle" /\ userId' = "random" /\ isAuthReady' = TRUE
    /\ UNCHANGED <<app, activeTab, token, db, obs, data, feedError, wvars, tvars, svars>>
    /\ Listen(FALSE)

IndexSessionEnds ==
    /\ app = "index.jsx" /\ obs = "on" /\ apc = "idle" /\ currentUser # "null"
    /\ currentUser' = "null"
    /\ IndexOnAuth("null")
    /\ UNCHANGED <<app, activeTab, token, db, obs, data, feedError, wvars, tvars, svars>>
    /\ Listen(FALSE)

\* the other tab is chosen (the tabs are rendered once isAuthReady is true):
\* the view is unmounted (its listener is unsubscribed) and the other view
\* is mounted with an empty history
IndexSwitchTab ==
    /\ app = "index.jsx" /\ isAuthReady
    /\ activeTab' = IF activeTab = "home" THEN "skin" ELSE "home"
    /\ data' = <<>>
    /\ feedError' = FALSE
    /\ UNCHANGED <<app, token, db, userId, isAuthReady, currentUser, obs, apc>>
    /\ ViewReset
    /\ Listen(TRUE)

\* the App is discarded: every effect cleanup runs
Unmount ==
    /\ app # "none"
    /\ app' = "none"
    /\ activeTab' = "home"
    /\ token' = FALSE
    /\ db' = FALSE
    /\ userId' = "null"
    /\ isAuthReady' = FALSE
    /\ currentUser' = "null"
    /\ obs' = "off"
    /\ apc' = "idle"
    /\ feed' = "none"
    /\ estab' = NoSub
    /\ snap' = <<>>
    /\ prev' = <<>>
    /\ data' = <<>>
    /\ lastEvent' = "none"
    /\ feedError' = FALSE
    /\ ViewReset

NextFeed ==
    \/ AppMount \/ AppFirstAuthState \/ AppSignIn \/ AppSessionEnds
    \/ PartMount \/ PartFirstAuthState \/ PartSignIn \/ PartSessionEnds
    \/ IndexMount \/ IndexFirstAuthState \/ IndexSignIn \/ IndexSessionEnds
    \/ IndexSwitchTab \/ Unmount
    \/ AppSnapshot \/ AppFeedError \/ PartSnapshot \/ PartFeedError
    \/ IndexSnapshot \/ IndexFeedError

SpecFeed == Init /\ [][NextFeed]_vars

\* the authentication flows alone; every observer call that is due and every
\* sign-in that is awaited happens in the end
NextAuth ==
    \/ AppMount \/ AppFirstAuthState \/ AppSignIn \/ AppSessionEnds
    \/ PartMount \/ PartFirstAuthState \/ PartSignIn \/ PartSessionEnds
    \/ IndexMount \/ IndexFirstAuthState \/ IndexSignIn \/ IndexSessionEnds
    \/ IndexSwitchTab \/ Unmount

SpecAuth ==
    /\ Init /\ [][NextAuth]_vars
    /\ WF_vars(AppFirstAuthState) /\ WF_vars(AppSignIn)
    /\ WF_vars(PartFirstAuthState) /\ WF_vars(PartSignIn)
    /\ WF_vars(IndexFirstAuthState) /\ WF_vars(IndexSignIn)

\* ================================================= weight save handlers
\* what a handler that calls setDoc has read: its input, db and userId of
\* the render it closes over, the clock, and the session of that moment
Run(h, str, c) ==
    [handler |-> h, input |-> str, db |-> db, userId |-> userId, called |-> c,
     key |-> IF c THEN now ELSE 0, session |-> currentUser,
     description |-> description, image |-> image, analysis |-> aiResponse]

\* the catch block sets a message and leaves the field as it is
AfterRejectedCleared(str) == ""
AfterRejected(str) == str

\* the awaited setDoc settles: the try block goes on or the catch runs
Settled(run) ==
    \E ok \in WriteOutcomes(run) :
        IF ok
          THEN /\ Written(run)
               /\ saveMessage' = "saved"
               /\ weightInput' = ""
          ELSE /\ saveMessage' = "failed"
               /\ weightInput' = AfterRejected(weightInput)
               /\ UNCHANGED <<store, records, saves>>

Refused(h, str, msg) ==
    /\ lastSave' = Run(h, str, FALSE)
    /\ saveMessage' = msg
    /\ weightInput' = str
    /\ UNCHANGED <<store, records, saves, saving>>

\* RecordWeight.handleRecord (HealthTrackerApp.jsx) up to its await; the
\* component is rendered once isAuthReady is true and its button is disabled
\* while loading
AppHandleRecord ==
    /\ app = "HealthTrackerApp" /\ isAuthReady /\ ~saving
    /\ \E str \in WeightInputs :
        IF AppSaveNotReady(db, userId)
          THEN Refused("handleRecord", str, "not ready")
        ELSE IF InvalidWeight(ParseFloat(str))
          THEN Refused("handleRecord", str, "invalid")
        ELSE /\ lastSave' = Run("handleRecord", str, TRUE)
             /\ saving' = TRUE
             /\ saveMessage' = ""
             /\ weightInput' = str
             /\ UNCHANGED <<store, records, saves>>
    /\ UNCHANGED <<now, description>>
    /\ UNCHANGED <<fvars, avars, wvars, tvars>>

\* handleRecord after its await, with its finally block
AppRecordSettled ==
    /\ saving /\ lastSave.handler = "handleRecord"
    /\ Settled(lastSave)
    /\ saving' = FALSE
    /\ UNCHANGED <<lastSave, now, description>>
    /\ UNCHANGED <<fvars, avars, wvars, tvars>>

\* WeightTracker.handleSaveWeight (part_000): it sets no state before its
\* await and its button stays enabled, so the call and its settlement are
\* one step here
PartHandleSaveWeight ==
    /\ app = "part_000"
    /\ \E str \in WeightInputs :
        IF PartSaveNotReady(db, userId, str)
          THEN Refused("handleSaveWeight", str, "not ready")
        ELSE IF InvalidWeight(ParseFloat(str))
          THEN Refused("handleSaveWeight", str, "invalid")
        ELSE /\ lastSave' = Run("handleSaveWeight", str, TRUE)
             /\ Settled(Run("handleSaveWeight", str, TRUE))
             /\ UNCHANGED saving
    /\ UNCHANGED <<now, description>>
    /\ UNCHANGED <<fvars, avars, wvars, tvars>>

\* a millisecond passes
Tick ==
    /\ now < MaxClock
    /\ now' = now + 1
    /\ UNCHANGED <<store, saveMessage, lastSave, saves, weightInput, saving, description, records>>
    /\ UNCHANGED <<fvars, avars, wvars, tvars>>

NextWeights ==
    \/ AppMount \/ AppFirstAuthState \/ AppSignIn \/ AppSessionEnds
    \/ PartMount \/ PartFirstAuthState \/ PartSignIn \/ PartSessionEnds
    \/ Unmount
    \/ AppHandleRecord \/ AppRecordSettled \/ PartHandleSaveWeight
    \/ Tick

SpecWeights == Init /\ [][NextWeights]_vars

\* =================================================== index.jsx: save handlers
\* HomeTracker and SkinJournal are rendered once isAuthReady is true and db is
\* set, each on its tab
Rendered(tab) == app = "index.jsx" /\ isAuthReady /\ db /\ activeTab = tab

\* the view's text field and file input; a chosen image stays until a save
IndexEdit ==
    /\ \E tab \in {"home", "skin"} : Rendered(tab)
    /\ \E desc \in BOOLEAN, img \in BOOLEAN :
        /\ description' = desc
        /\ image' = (image \/ img)
    /\ UNCHANGED <<tool, tpc, entries, loading, message, aiResponse, activeTool, pending>>
    /\ UNCHANGED <<store, saveMessage, lastSave, now, saves, weightInput, saving, records>>
    /\ UNCHANGED <<wvars, fvars, avars>>

\* if (!record.mealDescription && !record.base64Image)
MealInputMissing(desc, img) == ~desc /\ ~img

\* if (!skinRecord.base64Image)
SkinInputMissing(desc, img) == ~img

\* analyzeMeal and analyzeSkin with the start of runGeneration; the call of
\* fetchWithBackoff, modelled step by step under SpecTools, is taken here by
\* its outcome alone
IndexAnalyze(tab, t, missing) ==
    /\ Rendered(tab)
    /\ ~IndexSubmitDisabled(loading, saving)
    /\ tool' = t
    /\ IF missing
         THEN /\ message' = "validation"
              /\ tpc' = "rejected"
              /\ UNCHANGED <<loading, aiResponse, pending>>
         ELSE /\ message' = "info"
              /\ aiResponse' = "null"
              /\ loading' = TRUE
              /\ pending' = pending + 1
              /\ tpc' = "generating"
    /\ UNCHANGED <<image, entries, activeTool>>
    /\ UNCHANGED <<wvars, xvars>>

IndexAnalyzeMeal ==
    IndexAnalyze("home", "analyzeMeal", MealInputMissing(description, image))

IndexAnalyzeSkin ==
    IndexAnalyze("skin", "analyzeSkin", SkinInputMissing(description, image))

\* what runGeneration leaves in aiResponse: the text of the response, the
\* fallback for a response without text, or the message of its catch block
GenerationResults == {"text", FallbackResponse, "failure"}

\* fetchWithBackoff settles and runGeneration ends, then setMessage('')
IndexGenerated ==
    /\ app = "index.jsx"
    /\ tool \in IndexTools \cup IndexMealTools /\ tpc = "generating"
    /\ \E r \in GenerationResults : aiResponse' = r
    /\ loading' = LoadingAfter(FALSE)
    /\ pending' = pending - 1
    /\ message' = "null"
    /\ tpc' = "done"
    /\ UNCHANGED <<tool, image, entries, activeTool>>
    /\ UNCHANGED <<wvars, xvars>>

\* disabled={!aiResponse || isSaving || isLoading}, and in SkinJournal
\* || !skinRecord.base64Image
IndexSaveDisabled(tab, ai, sv, l, img) ==
    ai = "null" \/ sv \/ l \/ (tab = "skin" /\ ~img)

\* if (!db || !userId) return;
IndexSaveNotReady(d, u) == ~d \/ u = "null"

\* if (!record.mealDescription && !record.base64Image) in saveRecord,
\* if (!skinRecord.base64Image) in saveSkinRecord
SaveFormEmptyNever(h, desc, img) == FALSE
SaveFormEmpty(h, desc, img) == IF h = "saveRecord" THEN ~desc /\ ~img ELSE ~img

\* saveRecord and saveSkinRecord up to the await of setDoc
IndexSave ==
    /\ Rendered(activeTab)
    /\ ~IndexSaveDisabled(activeTab, aiResponse, saving, loading, image)
    /\ LET h == IF activeTab = "home" THEN "saveRecord" ELSE "saveSkinRecord" IN
        IF IndexSaveNotReady(db, userId)
          THEN /\ lastSave' = Run(h, "", FALSE)
               /\ UNCHANGED <<message, saving>>
        ELSE IF SaveFormEmpty(h, description, image)
          THEN /\ lastSave' = Run(h, "", FALSE)
               /\ message' = "validation"
               /\ UNCHANGED saving
        ELSE /\ lastSave' = Run(h, "", TRUE)
             /\ message' = "info"
             /\ saving' = TRUE
    /\ UNCHANGED <<tool, tpc, image, entries, loading, aiResponse, activeTool, pending>>
    /\ UNCHANGED <<store, saveMessage, now, saves, weightInput, description, records>>
    /\ UNCHANGED <<wvars, fvars, avars>>

\* the rest of saveRecord and saveSkinRecord: the form and the AI response
\* are cleared after the write, the catch block sets a message, the finally
\* block clears isSaving
IndexSaveSettled ==
    /\ saving /\ lastSave.handler \in IndexSaves
    /\ \E ok \in WriteOutcomes(lastSave) :
        IF ok
          THEN /\ Written(lastSave)
               /\ description' = FALSE
               /\ image' = FALSE
               /\ aiResponse' = "null"
               /\ message' = "saved"
          ELSE /\ message' = "failed"
               /\ UNCHANGED <<store, records, saves, description, image, aiResponse>>
    /\ saving' = FALSE
    /\ UNCHANGED <<tool, tpc, entries, loading, activeTool, pending>>
    /\ UNCHANGED <<saveMessage, lastSave, now, weightInput>>
    /\ UNCHANGED <<wvars, fvars, avars>>

\* setTimeout(() => setMessage(''), 5000) at the end of a save
IndexMessageCleared ==
    /\ app = "index.jsx" /\ ~saving
    /\ message \in {"saved", "failed"}
    /\ message' = "null"
    /\ UNCHANGED <<tool, tpc, image, entries, loading, aiResponse, activeTool, pending>>
    /\ UNCHANGED <<wvars, xvars>>

\* one program stays mounted with the session it obtained: the index.jsx
\* views with their analyses and saves, or RecordWeight of HealthTrackerApp.jsx
NextSave ==
    \/ IndexMount \/ IndexFirstAuthState \/ IndexSignIn
    \/ IndexSwitchTab
    \/ IndexEdit \/ IndexAnalyzeMeal \/ IndexAnalyzeSkin \/ IndexGenerated
    \/ IndexSave \/ IndexSaveSettled \/ IndexMessageCleared
    \/ AppMount \/ AppFirstAuthState \/ AppSignIn
    \/ AppHandleRecord \/ AppRecordSettled

SpecSave == Init /\ [][NextSave]_vars

\* ===================================================== claim vocabulary
\* the classes of outcome the specification speaks of
Success(o) == o.kind = "http" /\ o.status = 200
Transient(o) == o.kind = "http" /\ (o.status = 429 \/ o.status >= 500)
NonTransient(o) == o.kind = "http" /\ o.status >= 400 /\ o.status <= 499 /\ o.status # 429
TransportFailure(o) == o.kind = "transport"

AllTransient == \A k \in 1..Len(calls) : Transient(calls[k])

\* the number of calls after which the wrapper has no attempt left
Attempts ==
    IF wrapper = "rec" THEN maxRetries + 1 ELSE maxRetries

RECURSIVE SumBase(_)
SumBase(s) == IF s = <<>> THEN 0 ELSE s[1].base + SumBase(Tail(s))

RECURSIVE SumJitter(_)
SumJitter(s) == IF s = <<>> THEN 0 ELSE s[1].jitter + SumJitter(Tail(s))

\* C1: fetchWithRetry with budget N >= 1 issues at most N fetch calls, and
\* when every response is a transient failure (429 or 5xx) it ends by raising
\* a failure after exactly N calls; the loop of part_000 does so with N = 3.
C1_BudgetRespected ==
    (wrapper \in {"fetchWithRetry", "loop"} /\ maxRetries >= 1) =>
        /\ Len(calls) <= maxRetries
        /\ (wrapper = "loop" => maxRetries = 3)
        /\ (AllTransient /\ Finished) => (pc = "failed" /\ Len(calls) = maxRetries)
        /\ (AllTransient /\ Len(calls) = maxRetries) => pc \in {"failed", "loop"}

C1_Witness ==
    /\ wrapper = "fetchWithRetry" /\ maxRetries = 3
    /\ pc = "failed" /\ AllTransient /\ Len(calls) = 3

\* C2: the recursive fetchWithBackoff of index.jsx, called with its default
\* retries = 3, issues at most 3 network calls per invocation.
C2_RecAtMostThreeCalls ==
    (wrapper = "rec" /\ maxRetries = DefaultRetries) => Len(calls) <= 3

\* C3: in fetchWithRetry one non-transient failure response ends the loop at
\* once: exactly 1 fetch call, no backoff delay, the failure raised.
C3_NonTransientEndsRetry ==
    (wrapper = "fetchWithRetry" /\ Len(calls) >= 1 /\ NonTransient(calls[1])) =>
        (Len(calls) = 1 /\ sleeps = <<>> /\ pc = "failed")

\* C4: in both fetchWithBackoff variants a client-error response (400, 403)
\* is never retried: exactly 1 network call, then the invocation fails.
C4_ClientErrorNotRetried ==
    (wrapper \in {"loop", "rec"} /\ Len(calls) >= 1 /\ NonTransient(calls[1])) =>
        (Len(calls) = 1 /\ sleeps = <<>> /\ pc \in {"failed", "loop"})

\* C5: in every wrapper the first attempt that gets a success response ends
\* the invocation: it returns, no further call is issued and no backoff
\* delay is taken after it, whatever failures came before.
C5_SuccessEndsInvocation ==
    \A k \in 1..Len(calls) :
        Success(calls[k]) =>
            /\ k = Len(calls)
            /\ pc = "returned"
            /\ Len(sleeps) = k - 1

C5_Witness ==
    /\ pc = "returned" /\ Len(calls) = 3 /\ Success(calls[3])
    /\ Len(sleeps) = 2

\* C6: in every wrapper a transport failure (fetch rejects) is transient: if
\* attempts remain the wrapper backs off and calls again instead of failing.
C6_TransportFailureRetried ==
    (pc = "failed" /\ Len(calls) >= 1 /\ TransportFailure(calls[Len(calls)])) =>
        Len(calls) = Attempts

\* C7: after a transient failure on attempt index i (from 0) that is not the
\* last attempt the wrapper sleeps BaseDelay * 2^i before the next call,
\* exactly that in part_000 and index.jsx and plus a jitter in [0, 1000) in
\* fetchWithRetry; no sleep is taken after the last attempt.
C7_BackoffDelay ==
    /\ \A k \in 1..Len(calls) :
        (Transient(calls[k]) /\ k < Attempts) =>
            /\ Len(sleeps) >= k
            /\ sleeps[k].base = BaseDelay * Pow2(k - 1)
            /\ IF wrapper = "fetchWithRetry"
                 THEN sleeps[k].jitter >= 0 /\ sleeps[k].jitter < 1000
                 ELSE sleeps[k].jitter = 0
    /\ Len(sleeps) <= Len(calls)
    /\ Len(sleeps) <= (IF Attempts >= 1 THEN Attempts - 1 ELSE 0)

C7_Witness ==
    /\ wrapper = "fetchWithRetry" /\ maxRetries = 3 /\ pc = "failed"
    /\ AllTransient /\ Len(sleeps) = 2 /\ sleeps[2].jitter > 0

\* C8 (as stated): on N transient failures with budget N the total backoff
\* delay slept before the failure is raised is BaseDelay * (2^N - 1), 7000 ms
\* for part_000 and 7000 ms plus the jitter terms for fetchWithRetry, N = 3.
C8_TotalDelayAsStated ==
    (/\ wrapper \in {"fetchWithRetry", "loop"} /\ maxRetries >= 1
     /\ pc = "failed" /\ AllTransient /\ Len(calls) = maxRetries) =>
        SumBase(sleeps) = BaseDelay * (Pow2(maxRetries) - 1)

\* C8 (amended): on N transient failures with budget N the wrapper sleeps
\* N - 1 times, BaseDelay * (2^(N-1) - 1) in total, 3000 ms for N = 3, plus
\* in fetchWithRetry one jitter term in [0, 1000) per sleep.
C8_TotalDelay ==
    (/\ wrapper \in {"fetchWithRetry", "loop"} /\ maxRetries >= 1
     /\ pc = "failed" /\ AllTransient /\ Len(calls) = maxRetries) =>
        /\ Len(sleeps) = maxRetries - 1
        /\ SumBase(sleeps) = BaseDelay * (Pow2(maxRetries - 1) - 1)
        /\ (maxRetries = 3 => SumBase(sleeps) = 3000)
        /\ SumJitter(sleeps) >= 0
        /\ SumJitter(sleeps) <= (JitterRange - 1) * (maxRetries - 1)
        /\ (wrapper = "loop" => SumJitter(sleeps) = 0)

C8_Witness ==
    /\ wrapper = "loop" /\ pc = "failed" /\ AllTransient
    /\ Len(calls) = 3 /\ SumBase(sleeps) = 3000

\* C9: when a wrapper runs out of attempts the failure it raises is the one
\* of the last attempt, carrying that attempt's HTTP status when the attempt
\* got a response and the transport error when it did not.
C9_LastFailureRaised ==
    (pc = "failed" /\ Len(calls) = Attempts /\ Len(calls) >= 1) =>
        /\ raised.attempt = Len(calls) - 1
        /\ (calls[Len(calls)].kind = "http" =>
                raised.kind = "status" /\ raised.status = calls[Len(calls)].status)
        /\ (calls[Len(calls)].kind = "transport" => raised.kind = "transport")

\* C10: a photo-analysis or skin-analysis request submitted with no image
\* attached fails local validation: the handler sets a validation message
\* and returns, no network call is issued and loading is never set.
C10_NoImageNoCall ==
    (tool \in AppTools \cup PartTools \cup IndexTools /\ ~image) =>
        /\ tpc = "rejected"
        /\ wrapper = "none" /\ pc = "idle" /\ calls = <<>>
        /\ ~loading
        /\ IF tool \in PartTools
             THEN aiResponse = "validation"
             ELSE message = "validation"

C10_Witness ==
    /\ tool = "analyzeSkin" /\ ~image /\ tpc = "rejected"
    /\ message = "validation" /\ calls = <<>>

\* C11: a progress-advice request made with fewer than 2 weight entries
\* fails local validation with no network call, in handleGetAdvice and in
\* the progressTips case of AITools.handleSubmit.
C11_AdviceNeedsTwoEntries ==
    (tool \in AppAdviceTools \cup PartAdviceTools /\ entries < 2) =>
        /\ tpc = "rejected"
        /\ wrapper = "none" /\ pc = "idle" /\ calls = <<>>

\* the response the wrapper returned carries no usable text
NoUsableText == pc = "returned" /\ calls[Len(calls)].body = "notext"

\* what the tool shows once it is done: the error channel in
\* HealthTrackerApp.jsx, aiResponse elsewhere
Shown ==
    IF tool \in AppTools \cup AppAdviceTools
      THEN (IF message # "null" THEN message ELSE aiResponse)
      ELSE aiResponse

\* C19 (as stated): a generation call whose response has no usable text shows
\* the literal "No se pudo obtener respuesta de la IA." and no exception
\* escapes the handler.
C19_FallbackAsStated ==
    (tpc = "done" /\ NoUsableText) =>
        Shown = "No se pudo obtener respuesta de la IA."

\* C19 (amended): such a call ends the handler normally (loading cleared, no
\* exception escapes) and shows a fallback: part_000 and index.jsx show
\* "Error: No se pudo obtener respuesta de la IA." as the AI response,
\* HealthTrackerApp.jsx shows the thrown "No se pudo obtener la respuesta de
\* la IA." in its error message and no result.
C19_Fallback ==
    (tpc \in {"generating", "done"} /\ NoUsableText) =>
        /\ tpc = "done" => ~loading
        /\ (tpc = "done" /\ tool \in PartTools \cup PartAdviceTools \cup IndexTools) =>
                aiResponse = "Error: No se pudo obtener respuesta de la IA."
        /\ (tpc = "done" /\ tool \in AppTools \cup AppAdviceTools) =>
                /\ message = "No se pudo obtener la respuesta de la IA."
                /\ aiResponse = "null"

C19_Witness ==
    /\ tpc = "done" /\ NoUsableText /\ tool = "progressTips"
    /\ aiResponse = "Error: No se pudo obtener respuesta de la IA."

\* ------------------------------------------------ change-feed vocabulary
\* a snapshot has been delivered to the subscribed listener and nothing since
Applied == lastEvent \in {"snapshot", "redelivery"}
RecordsOf(s) == {<<s[k].ts, s[k].weight>> : k \in 1..Len(s)}
SameRecords(wd, s) == Len(wd) = Len(s) /\ RecordsOf(wd) = RecordsOf(s)
Ascending(s) == \A j, k \in 1..Len(s) : j < k => s[j].ts < s[k].ts
Descending(s) == \A j, k \in 1..Len(s) : j < k => s[j].ts > s[k].ts
NonIncreasing(s) == \A j, k \in 1..Len(s) : j < k => s[j].ts >= s[k].ts
PlaceOf(id, s) == CHOOSE k \in 1..Len(s) : s[k].id = id
TiesKeepOrder(h, s) ==
    \A j, k \in 1..Len(h) :
        (j < k /\ h[j].ts = h[k].ts) => PlaceOf(h[j].id, s) < PlaceOf(h[k].id, s)
Oldest(s) == CHOOSE d \in {s[k] : k \in 1..Len(s)} : \A k \in 1..Len(s) : d.ts <= s[k].ts
Newest(s) == CHOOSE d \in {s[k] : k \in 1..Len(s)} : \A k \in 1..Len(s) : d.ts >= s[k].ts

\* C12: after a snapshot is delivered to a weights listener, weightData
\* holds exactly the records of that snapshot, whatever it held before, in
\* ascending order of timestamp.
C12_WeightDataIsSnapshot ==
    (feed \in WeightFeeds /\ Applied) => SameRecords(data, snap) /\ Ascending(data)

C12_Witness ==
    /\ feed \in WeightFeeds /\ lastEvent = "snapshot"
    /\ Len(snap) = 3 /\ snap[1].ts > snap[3].ts /\ snap[2].ts > snap[1].ts

\* C13: when the snapshot a listener already has is delivered to it again,
\* the materialized set is what it was before; the history listeners order
\* their records by timestamp, newest first, and records with the same
\* timestamp stay in the order of the snapshot.
C13_RedeliveryChangesNothing ==
    /\ lastEvent = "redelivery" => data = prev
    /\ (feed \in IndexFeeds /\ Applied) =>
          /\ Len(data) = Len(snap)
          /\ NonIncreasing(data)
          /\ TiesKeepOrder(data, snap)

C13_Witness ==
    /\ feed \in IndexFeeds /\ lastEvent = "redelivery"
    /\ Len(snap) = 3
    /\ snap[1].ts < snap[3].ts
    /\ data[2].ts = data[3].ts

\* C14: the progress summary shows the weight of the oldest record as the
\* initial weight, the weight of the newest record as the latest weight and
\* latest minus initial as the change; the history table of WeightHistory
\* lists the records newest first.
C14_ProgressSummary ==
    /\ (feed = "HealthTrackerApp.weights" /\ Applied /\ snap # <<>>) =>
          /\ AppInitialWeight(data) = Oldest(snap).weight
          /\ AppCurrentWeight(data) = Newest(snap).weight
          /\ AppDifference(data) = Newest(snap).weight - Oldest(snap).weight
          /\ SameRecords(AppSortedData(data), snap)
          /\ Descending(AppSortedData(data))
    /\ (feed = "part_000.weights" /\ Applied /\ snap # <<>>) =>
          /\ PartInitialWeight(data) = Oldest(snap).weight
          /\ PartLatestWeight(data) = Newest(snap).weight
          /\ PartChange(data) = Newest(snap).weight - Oldest(snap).weight

\* the scenario of the claim: 80 at T1, 78 at T2, 76 at T3
C14_Witness ==
    /\ feed = "HealthTrackerApp.weights" /\ lastEvent = "snapshot"
    /\ Len(snap) = 3 /\ snap[1].ts = 2 /\ snap[2].ts = 3 /\ snap[3].ts = 1
    /\ AppInitialWeight(data) = 80
    /\ AppCurrentWeight(data) = 76
    /\ AppDifference(data) = -4
    /\ [k \in 1..3 |-> AppSortedData(data)[k].ts] = <<3, 2, 1>>

\* C15: after a subscription error the listener's materialized set is empty
\* and an error is shown to the user.
C15_ErrorEmptiesAndShows ==
    lastEvent = "error" => (data = <<>> /\ feedError)

\* C16: a weights listener is subscribed only when, at that moment, db is
\* set, userId is set, isAuthReady is true and auth.currentUser is not null.
C16_WeightsListenerPreconditions ==
    feed \in WeightFeeds =>
        /\ estab.db
        /\ estab.userId # "null"
        /\ estab.isAuthReady
        /\ estab.currentUser # "null"

C16_Witness ==
    /\ feed = "HealthTrackerApp.weights"
    /\ estab.currentUser \in Uids
    /\ lastEvent = "snapshot"

\* C17: a nutrition_history or skin_journal listener is subscribed only
\* under a live session, never under the crypto.randomUUID() fallback id.
C17_HistoryListenerLiveSession ==
    feed \in IndexFeeds => (estab.currentUser # "null" /\ estab.userId \in Uids)

\* C18: while a weights listener is subscribed, db is set, userId is set,
\* isAuthReady is true and auth.currentUser is not null.
C18_ActiveListenerPreconditions ==
    feed \in WeightFeeds =>
        (db /\ userId # "null" /\ isAuthReady /\ currentUser # "null")

\* ------------------------------------------------- weight-entry vocabulary
PositiveNumber(str) == ~ParseFloat(str).nan /\ ParseFloat(str).val > 0
Writable(run) == PositiveNumber(run.input) /\ run.db /\ run.userId # "null"

AwaitsToken == apc = "token"
AwaitsAnonymous == apc \in {"anon", "fallback"}

\* C25: a token exchange that ends without a session is followed by an
\* anonymous sign-in, in each flow; a flow that starts without a token
\* starts with the anonymous sign-in, and the token is exchanged only when
\* there is one.
C25_AnonymousFallback ==
    [][/\ (AwaitsToken /\ apc' # "token" /\ currentUser' = "null" /\ app' # "none")
            => apc' = "fallback"
       /\ (apc = "idle" /\ apc' # "idle") => (apc' = IF token' THEN "token" ELSE "anon")]_vars

C25_Witness ==
    /\ app = "index.jsx" /\ token
    /\ apc = "fallback" /\ currentUser = "null"

\* C28: once Firebase is initialised, isAuthReady becomes true in the end
\* (unless the App is discarded first).
C28_AuthReadyInTheEnd ==
    (app # "none" /\ db) ~> (isAuthReady \/ app = "none")

\* C27: a handler that has set its loading flag clears it in the end,
\* whatever the outcomes of its calls.
C27_LoadingCleared == loading ~> ~loading

\* the handler cleared the flag after the wrapper had used up its attempts
C27_Witness ==
    /\ tpc = "done" /\ ~loading
    /\ pc = "failed" /\ Len(calls) = 3

\* C26: within one tool component at most one generation invocation is
\* pending: the submit control is disabled while loading is set, so no
\* second invocation starts before the first has cleared it, and a call of
\* the retry wrapper in progress belongs to that one invocation.
C26_OnePending ==
    /\ pending <= 1
    /\ (pending = 1) <=> loading
    /\ ~Finished => pending = 1

C26_Witness ==
    /\ pending = 1 /\ loading /\ tool = "handleGetAdvice"
    /\ ~Finished /\ Len(calls) = 2

\* a result or an error is on display in an AI panel
Displayed == aiResponse # "null" \/ message # "null"

\* C29: what an AI tools panel displays was produced by a request issued for
\* the tab that is active now.
C29_ShownForActiveTool ==
    (activeTool \in AppTabs \cup PartTabs /\ Displayed) => TabOf(tool) = activeTool

\* C21: weight-entry writes are pure inserts: each write uses a key distinct
\* from every key already stored, so no stored entry is overwritten and the
\* number of stored entries equals the number of successful submissions.
C21_PureInserts == Cardinality(store) = saves

\* C24: a record write is issued under the uid of the signed-in user: the
\* userId of its path is the session's uid, and none is issued under a
\* fallback identifier while there is no session.
C24_WritesUnderLiveSession ==
    lastSave.called =>
        /\ lastSave.session # "null"
        /\ lastSave.userId = lastSave.session

\* ------------------------------------------------- record-save vocabulary
\* the analysis of a stored record is the text of a generated response
Analysed(r) == r.analysis = "text"
\* the form a save handler saw had what its record needs
FormFilled(run) ==
    IF run.handler = "saveRecord" THEN run.description \/ run.image ELSE run.image
\* a save handler of index.jsx has just run up to its write or its return
IndexSaveRan == lastSave' # lastSave /\ lastSave'.handler \in IndexSaves
\* the awaited write of the mounted view has just settled
WriteSettled == saving /\ ~saving' /\ app' = app /\ activeTab' = activeTab

\* C22: a nutrition or skin record is persisted only after a successful
\* generation: no stored record has an analysis that is the error message of
\* a failed generation or the no-response fallback.
C22_OnlyAnalysedRecords ==
    \A k \in 1..Len(records) : Analysed(records[k])

\* C23: saveRecord writes only if a description or an image is present at
\* save time and saveSkinRecord only if an image is present (its records
\* have hasImage = true); otherwise nothing is written and an error message
\* is set.
C23_SaveNeedsInput ==
    /\ [](\A k \in 1..Len(records) :
             IF records[k].coll = "nutrition_history"
               THEN records[k].description \/ records[k].hasImage
               ELSE records[k].hasImage)
    /\ [][IndexSaveRan =>
             /\ lastSave'.called <=> FormFilled(lastSave')
             /\ ~lastSave'.called =>
                   /\ message' = "validation"
                   /\ ~saving' /\ records' = records]_vars

C23_Witness ==
    /\ lastSave.handler = "saveRecord" /\ ~lastSave.called
    /\ ~lastSave.description /\ ~lastSave.image /\ lastSave.analysis = "text"
    /\ message = "validation" /\ records = <<>>

\* C30: when the awaited setDoc rejects, the save handler leaves the form
\* and the AI response as they are, sets an error message and clears its
\* saving flag; the form and the AI response are cleared only after a
\* fulfilled write.
C30_RejectedWriteKeepsForm ==
    [][WriteSettled =>
         IF saves' = saves /\ records' = records
           THEN /\ <<description', image', aiResponse', weightInput'>>
                      = <<description, image, aiResponse, weightInput>>
                /\ (IF lastSave.handler \in IndexSaves THEN message' ELSE saveMessage')
                      = "failed"
           ELSE IF lastSave.handler \in IndexSaves
                  THEN ~description' /\ ~image' /\ aiResponse' = "null"
                  ELSE weightInput' = ""]_vars

C30_Witness ==
    /\ ~saving /\ lastSave.called /\ lastSave.handler = "saveSkinRecord"
    /\ message = "failed" /\ image /\ aiResponse = "text"
    /\ records = <<>>
====
